---- MODULE Spec2Model ----
(***************************************************************************)
(* Model of udl (src/src/main.rs): a TCP listener thread that reads one    *)
(* NUL-delimited JSON DebugEntry per connection and inserts it at the      *)
(* front of a shared StatefulTable, and the main thread that renders the   *)
(* table and moves its selection on the keys j and k.  Both threads reach  *)
(* the table through Mutex::try_lock().unwrap().                            *)
(*                                                                         *)
(* usize values are represented by their two's-complement signed reading:  *)
(* the integer -1 stands for usize::MAX, -2 for usize::MAX - 1, and so on. *)
(* UsizeGe is the unsigned comparison under that reading.                   *)
(***************************************************************************)
EXTENDS Integers, Sequences, FiniteSets, TLC

\* ---------------------------------------------------------------- bounds
\* number of connections the listener accepts in a run
MaxConns == 2
\* number of bytes a client writes on one connection
MaxBytes == 2
\* largest magnitude the selection index may reach before key presses stop
MaxSel == 2

\* ------------------------------------------------------------ wire bytes
\* "A" and "B" each stand for the complete JSON text of one schema-valid
\* DebugEntry; "ws" is a JSON whitespace byte, "x" any other byte, "NUL" 0x00.
Docs == {"A", "B"}
Bytes == Docs \cup {"ws", "x", "NUL"}
Endings == {"close", "stall", "reset"}

\* Option<usize>: None is the empty sequence, Some(i) the sequence <<i>>
None == <<>>
Some(i) == <<i>>
NoEntry == "NoEntry"
DecodeError == "DecodeError"
NoConn == [bytes |-> <<>>, ending |-> "none"]

SeqsUpTo(S, n) == UNION {[1..k -> S] : k \in 0..n}

VARIABLES
    alive,          \* the process is running
    overflowChecks, \* build profile: arithmetic overflow panics (debug) or wraps (release)
    items,          \* StatefulTable.items, index 1 is Vec index 0
    selected,       \* StatefulTable.state.selected(): None or a usize
    lock,           \* holder of the Mutex: "free", "ui" or "task"
    uiPc,           \* position of the main thread
    uiPanic,        \* what the main thread panicked on, or "none"
    lsPc,           \* position of the listener thread / connection task
    taskPanic,      \* what the listener thread or task panicked on, or "none"
    conn,           \* the connection being read: bytes written and how it ends
    value,          \* result of read(): the collected content
    entry,          \* the decoded DebugEntry awaiting insertion
    lenAtAccept,    \* history: items.len() when the last connection was accepted
    sent,           \* history: what each accepted connection carried
    inFlight,       \* number of spawned connection tasks that have not finished
    trail,          \* history: the key steps since items or the default selection changed
    data,           \* DebugEntry.data: the content shared by two stored entries
    hashOrder,      \* iteration order of each entry's own HashMap instance
    paragraph       \* build_paragraph_for_item's result per entry, <<>> before the call

vars == <<alive, overflowChecks, items, selected, lock, uiPc, uiPanic, lsPc,
          taskPanic, conn, value, entry, lenAtAccept, sent, inFlight, trail,
          data, hashOrder, paragraph>>

uiVars == <<selected, uiPc, uiPanic, trail>>
taskVars == <<lsPc, taskPanic, conn, value, entry, lenAtAccept, sent, inFlight>>
tableVars == <<alive, overflowChecks, items, lock>>
flatVars == <<data, hashOrder, paragraph>>

\* ------------------------------------------------------- usize arithmetic
UsizeGe(a, b) == IF (a < 0) = (b < 0) THEN a >= b ELSE a < 0

\* Vec::get(index).is_some()
InBounds(index, len) == index >= 0 /\ index < len

\* -------------------------------------------------- StatefulTable::next
\* self.items.len() - 1 overflows exactly when the table is empty
next_overflows(sel, len) == sel # None /\ len = 0

\* next wrapping one step late: i > len - 1 in place of i >= len - 1
next_wraps_late(sel, len) ==
    IF sel = None THEN Some(0)
    ELSE IF UsizeGe(sel[1], len) THEN Some(0) ELSE Some(sel[1] + 1)

next(sel, len) ==
    IF sel = None THEN Some(0)
    ELSE IF UsizeGe(sel[1], len - 1) THEN Some(0) ELSE Some(sel[1] + 1)

\* ---------------------------------------------- StatefulTable::previous
previous_overflows(sel, len) == sel = Some(0) /\ len = 0

\* previous stopping at index 0 in place of wrapping to the last index
previous_no_wrap(sel, len) ==
    IF sel = None THEN Some(0)
    ELSE IF sel[1] = 0 THEN Some(0) ELSE Some(sel[1] - 1)

\* previous starting from the last index when nothing is selected
previous_none_to_last(sel, len) ==
    IF sel = None THEN Some(len - 1)
    ELSE IF sel[1] = 0 THEN Some(len - 1) ELSE Some(sel[1] - 1)

previous(sel, len) ==
    IF sel = None THEN Some(0)
    ELSE IF sel[1] = 0 THEN Some(len - 1) ELSE Some(sel[1] - 1)

\* ------------------------------------------------------------- read()
HasNul(bytes) == \E i \in 1..Len(bytes) : bytes[i] = "NUL"

FirstNul(bytes) == CHOOSE i \in 1..Len(bytes) :
                      bytes[i] = "NUL" /\ \A j \in 1..(i - 1) : bytes[j] # "NUL"

\* read_until(b'\0') keeps the delimiter in the collected content
read_until(bytes) ==
    IF HasNul(bytes) THEN SubSeq(bytes, 1, FirstNul(bytes)) ELSE bytes

read(c) ==
    IF ~HasNul(c.bytes) /\ c.ending = "reset" THEN <<"error">>
    ELSE read_until(c.bytes)

\* the await on read_until returns once a NUL arrived or the stream ended
read_returns(c) == HasNul(c.bytes) \/ c.ending # "stall"

\* ------------------------------------------------- serde_json::from_str
RECURSIVE SkipWs(_)
SkipWs(s) == IF s # <<>> /\ Head(s) = "ws" THEN SkipWs(Tail(s)) ELSE s

\* one value, then only whitespace up to the end of the input
from_str(s) ==
    LET t == SkipWs(s) IN
    IF t # <<>> /\ Head(t) \in Docs /\ SkipWs(Tail(t)) = <<>>
    THEN Head(t) ELSE DecodeError

\* ------------------------------------------------------------ history
\* the bytes a client wrote ahead of its first NUL
BeforeNul(bytes) ==
    IF HasNul(bytes) THEN SubSeq(bytes, 1, FirstNul(bytes) - 1) ELSE bytes

\* what a connection carried: the Event its JSON text denotes (DecodeError
\* when it is no Event), whether a NUL was written, how the stream ended
Carried(c) ==
    [event |-> from_str(BeforeNul(c.bytes)), nul |-> HasNul(c.bytes), ending |-> c.ending]

\* number of key steps remembered
TrailLen == IF MaxConns > 2 THEN MaxConns ELSE 2

Extend(t, op, sel) ==
    LET u == Append(t, [op |-> op, before |-> sel])
    IN IF Len(u) > TrailLen THEN Tail(u) ELSE u

\* ---------------------------------------------------- serde_json::Value
Null == [t |-> "Null"]
Bool(b) == [t |-> "Bool", b |-> b]
Number(n) == [t |-> "Number", n |-> n]
JsonString(s) == [t |-> "String", s |-> s]
Array == [t |-> "Array"]
Object(m) == [t |-> "Object", m |-> m]

\* impl Display for bool, serde_json::Number and String
Display(v) ==
    CASE v.t = "Bool" -> IF v.b THEN "true" ELSE "false"
      [] v.t = "Number" -> ToString(v.n)
      [] v.t = "String" -> v.s

\* "-".repeat(n), one element per character
repeat(c, n) == [i \in 1..n |-> c]

\* payloads: keys of the top-level HashMap and of the nested Maps
TopKeys == {"array", "outer"}
NestKeys == {"array", "inner"}
MapsOver(K, V) == UNION {[D -> V] : D \in SUBSET K}
SmallMapsOver(K, V) ==
    UNION {[D -> V] : D \in {S \in SUBSET K : Cardinality(S) <= 1}}
Leaves == {Null, Number(5), Array}
InnerObjects == {Object(m) : m \in SmallMapsOver(NestKeys, Leaves)}
MidObjects == {Object(m) : m \in MapsOver(NestKeys, Leaves \cup InnerObjects)}
Payloads ==
    MapsOver(TopKeys, Leaves \cup {Bool(TRUE), JsonString("x")} \cup MidObjects)

\* the orders in which a HashMap may hand out its keys: any permutation,
\* fixed per instance by its RandomState
IterOrders(m) ==
    {o \in [1..Cardinality(DOMAIN m) -> DOMAIN m] :
        \A i, j \in DOMAIN o : i # j => o[i] # o[j]}

\* serde_json::Map is a BTreeMap: iteration in ascending key order
KeysAscending == <<"array", "inner", "outer">>
btree_iter(m) == SelectSeq(KeysAscending, LAMBDA k : k \in DOMAIN m)

\* ------------------------------------------- build_text_vec_from_object
\* a line is the sequence of its characters and interpolated pieces
RECURSIVE build_text_vec_from_object(_, _, _)

\* the nested flattener without the test on the key "array"
build_text_vec_from_object_always_header(object, level, label) ==
    LET indent == repeat("-", level * 2)
        arm(item_key) ==
            LET item_value == object[item_key]
            IN CASE item_value.t = "Null" ->
                        <<indent \o <<" ", item_key, " ", "NULL">>>>
                 [] item_value.t \in {"Bool", "Number", "String"} ->
                        <<indent \o <<" ", item_key, " ", Display(item_value)>>>>
                 [] item_value.t = "Array" -> <<>>
                 [] item_value.t = "Object" ->
                        <<indent \o <<" ", item_key, " ", "(", label, ")">>>>
                        \o build_text_vec_from_object(item_value.m, level + 1, item_key)
        RECURSIVE loop(_)
        loop(keys) ==
            IF keys = <<>> THEN <<>> ELSE arm(Head(keys)) \o loop(Tail(keys))
    IN loop(btree_iter(object))

build_text_vec_from_object(object, level, label) ==
    LET indent == repeat("-", level * 2)
        arm(item_key) ==
            LET item_value == object[item_key]
            IN CASE item_value.t = "Null" ->
                        <<indent \o <<" ", item_key, " ", "NULL">>>>
                 [] item_value.t \in {"Bool", "Number", "String"} ->
                        <<indent \o <<" ", item_key, " ", Display(item_value)>>>>
                 [] item_value.t = "Array" -> <<>>
                 [] item_value.t = "Object" ->
                        (IF item_key # "array"
                         THEN <<indent \o <<" ", item_key, " ", "(", label, ")">>>>
                         ELSE <<>>)
                        \o build_text_vec_from_object(item_value.m, level + 1, item_key)
        RECURSIVE loop(_)
        loop(keys) ==
            IF keys = <<>> THEN <<>> ELSE arm(Head(keys)) \o loop(Tail(keys))
    IN loop(btree_iter(object))

\* ------------------------------------------ build_text_vec_from_hashmap
\* a HashMap is its content and the order in which it iterates

\* the top-level flattener printing NULL after the key of a Null
build_text_vec_from_hashmap_null_word(map, level) ==
    LET indent == repeat("-", level * 2)
        arm(val_type) ==
            LET val == map.content[val_type]
            IN CASE val.t = "Null" -> <<indent \o <<" ", val_type, " ", "NULL">>>>
                 [] val.t \in {"Bool", "Number", "String"} ->
                        <<indent \o <<" ", val_type, " ", Display(val)>>>>
                 [] val.t = "Array" -> <<>>
                 [] val.t = "Object" ->
                        build_text_vec_from_object(val.m, level + 1, val_type)
        RECURSIVE loop(_)
        loop(keys) ==
            IF keys = <<>> THEN <<>> ELSE arm(Head(keys)) \o loop(Tail(keys))
    IN loop(map.iter)

build_text_vec_from_hashmap(map, level) ==
    LET indent == repeat("-", level * 2)
        arm(val_type) ==
            LET val == map.content[val_type]
            IN CASE val.t = "Null" -> <<indent \o <<" ", val_type>>>>
                 [] val.t \in {"Bool", "Number", "String"} ->
                        <<indent \o <<" ", val_type, " ", Display(val)>>>>
                 [] val.t = "Array" -> <<>>
                 [] val.t = "Object" ->
                        build_text_vec_from_object(val.m, level + 1, val_type)
        RECURSIVE loop(_)
        loop(keys) ==
            IF keys = <<>> THEN <<>> ELSE arm(Head(keys)) \o loop(Tail(keys))
    IN loop(map.iter)

\* item.data.clone() keeps the hasher, hence the iteration order; the text is
\* preceded by the "Logged on: {time}" line and an empty line
build_paragraph_for_item(item) ==
    LET text == build_text_vec_from_hashmap(item.data, 0)
    IN <<<<"Logged on: ", item.time>>, <<>>>> \o text

\* ---------------------------------------------------------------- Init
Started ==
    /\ alive = TRUE
    /\ items = <<>>
    /\ selected = None
    /\ lock = "free"
    /\ uiPc = "draw"
    /\ uiPanic = "none"
    /\ lsPc = "bind"
    /\ taskPanic = "none"
    /\ conn = NoConn
    /\ value = <<>>
    /\ entry = NoEntry
    /\ lenAtAccept = 0
    /\ sent = <<>>
    /\ inFlight = 0
    /\ trail = <<>>

Init ==
    /\ Started
    /\ overflowChecks \in BOOLEAN
    /\ data = <<>>
    /\ hashOrder = <<<<>>, <<>>>>
    /\ paragraph = <<<<>>, <<>>>>

\* ------------------------------------------------------- main thread
\* a panic of the main thread ends the process
UiPanics(cause) ==
    /\ alive' = FALSE
    /\ uiPc' = "panicked"
    /\ uiPanic' = cause

\* terminal.draw(|f| { let table = &mut mutex_table.try_lock().unwrap(); ...
DrawTryLock ==
    /\ alive /\ uiPc = "draw"
    /\ IF lock = "free"
       THEN /\ lock' = "ui"
            /\ uiPc' = "drawing"
            /\ UNCHANGED <<alive, uiPanic>>
       ELSE /\ UiPanics("try_lock")
            /\ UNCHANGED lock
    /\ UNCHANGED <<overflowChecks, items, selected, trail>>
    /\ UNCHANGED taskVars
    /\ UNCHANGED flatVars

\* a draw closure that selects the last index on every render of a non-empty table
DrawBody_always_defaults ==
    /\ alive /\ uiPc = "drawing"
    /\ selected' = IF Len(items) > 0 THEN Some(Len(items) - 1) ELSE selected
    /\ trail' = <<>>
    /\ lock' = "free"
    /\ uiPc' = "wait"
    /\ UNCHANGED <<alive, uiPanic>>
    /\ UNCHANGED <<overflowChecks, items>>
    /\ UNCHANGED taskVars
    /\ UNCHANGED flatVars

\* the rest of the draw closure; the guard is dropped when the closure ends
DrawBody ==
    /\ alive /\ uiPc = "drawing"
    /\ IF Len(items) > 0
       THEN IF selected = None
            THEN /\ selected' = Some(Len(items) - 1)
                 /\ trail' = <<>>
                 /\ lock' = "free"
                 /\ uiPc' = "wait"
                 /\ UNCHANGED <<alive, uiPanic>>
            ELSE IF InBounds(selected[1], Len(items))
                 THEN /\ lock' = "free"
                      /\ uiPc' = "wait"
                      /\ UNCHANGED <<alive, uiPanic, selected, trail>>
                 ELSE /\ UiPanics("get")
                      /\ UNCHANGED <<lock, selected, trail>>
       ELSE /\ lock' = "free"
            /\ uiPc' = "wait"
            /\ UNCHANGED <<alive, uiPanic, selected, trail>>
    /\ UNCHANGED <<overflowChecks, items>>
    /\ UNCHANGED taskVars
    /\ UNCHANGED flatVars

Inputs == {"Esc", "j", "k", "other", "tick"}

KeyPc(input) == IF input = "j" THEN "j_locked" ELSE "k_locked"

\* events.next()? and the match on the key, up to the arm's try_lock
Input ==
    /\ alive /\ uiPc = "wait"
    /\ \E input \in Inputs :
         CASE input = "Esc" ->
                /\ alive' = FALSE
                /\ uiPc' = "done"
                /\ UNCHANGED <<lock, uiPanic>>
           [] input \in {"j", "k"} ->
                /\ IF selected = None THEN TRUE
                   ELSE selected[1] < MaxSel /\ selected[1] > -MaxSel
                /\ IF lock = "free"
                   THEN /\ lock' = "ui"
                        /\ uiPc' = KeyPc(input)
                        /\ UNCHANGED <<alive, uiPanic>>
                   ELSE /\ UiPanics("try_lock")
                        /\ UNCHANGED lock
           [] OTHER ->
                /\ uiPc' = "draw"
                /\ UNCHANGED <<alive, lock, uiPanic>>
    /\ UNCHANGED <<overflowChecks, items, selected, trail>>
    /\ UNCHANGED taskVars
    /\ UNCHANGED flatVars

\* table.next(); the guard is dropped at the end of the match arm
KeyJ ==
    /\ alive /\ uiPc = "j_locked"
    /\ IF overflowChecks /\ next_overflows(selected, Len(items))
       THEN /\ UiPanics("overflow")
            /\ UNCHANGED <<lock, selected, trail>>
       ELSE /\ selected' = next(selected, Len(items))
            /\ trail' = Extend(trail, "next", selected)
            /\ lock' = "free"
            /\ uiPc' = "draw"
            /\ UNCHANGED <<alive, uiPanic>>
    /\ UNCHANGED <<overflowChecks, items>>
    /\ UNCHANGED taskVars
    /\ UNCHANGED flatVars

\* table.previous(); the guard is dropped at the end of the match arm
KeyK ==
    /\ alive /\ uiPc = "k_locked"
    /\ IF overflowChecks /\ previous_overflows(selected, Len(items))
       THEN /\ UiPanics("overflow")
            /\ UNCHANGED <<lock, selected, trail>>
       ELSE /\ selected' = previous(selected, Len(items))
            /\ trail' = Extend(trail, "previous", selected)
            /\ lock' = "free"
            /\ uiPc' = "draw"
            /\ UNCHANGED <<alive, uiPanic>>
    /\ UNCHANGED <<overflowChecks, items>>
    /\ UNCHANGED taskVars
    /\ UNCHANGED flatVars

\* --------------------------------------------------- listener thread
\* an Err out of handle_tcp is unwrapped on the listener thread and ends
\* that thread only
ListenerDies(cause) ==
    /\ lsPc' = "dead"
    /\ taskPanic' = cause
    /\ UNCHANGED alive

\* a panic inside the spawned connection task: the runtime either aborts the
\* process or hands the panic to handle.await, which ends the listener thread
TaskPanics(cause) ==
    /\ lsPc' = "dead"
    /\ taskPanic' = cause
    /\ inFlight' = inFlight - 1
    /\ alive' \in BOOLEAN

\* TcpListener::bind(...).await?
Bind ==
    /\ alive /\ lsPc = "bind"
    /\ \/ /\ lsPc' = "accept"
          /\ UNCHANGED <<alive, taskPanic>>
       \/ ListenerDies("bind")
    /\ UNCHANGED <<overflowChecks, items, lock, conn, value, entry, lenAtAccept,
                   sent, inFlight>>
    /\ UNCHANGED uiVars
    /\ UNCHANGED flatVars

\* a handler that takes the guard when it starts, ahead of the socket read
Accept_holds_guard ==
    /\ alive /\ lsPc = "accept"
    /\ Len(sent) < MaxConns
    /\ lock = "free"
    /\ \E b \in SeqsUpTo(Bytes, MaxBytes), e \in Endings :
            /\ HasNul(b) => e = "close"
            /\ conn' = [bytes |-> b, ending |-> e]
            /\ sent' = Append(sent, Carried(conn'))
            /\ lenAtAccept' = Len(items)
            /\ lsPc' = "read"
            /\ inFlight' = inFlight + 1
            /\ lock' = "task"
            /\ UNCHANGED <<alive, taskPanic>>
    /\ UNCHANGED <<overflowChecks, items, value, entry>>
    /\ UNCHANGED uiVars
    /\ UNCHANGED flatVars

\* a listener that spawns the handler and goes back to accepting without
\* awaiting its handle
Accept_without_await ==
    /\ alive /\ lsPc \in {"accept", "read"}
    /\ Len(sent) < MaxConns
    /\ \/ \E b \in SeqsUpTo(Bytes, MaxBytes), e \in Endings :
            /\ HasNul(b) => e = "close"
            /\ conn' = [bytes |-> b, ending |-> e]
            /\ sent' = Append(sent, Carried(conn'))
            /\ lenAtAccept' = Len(items)
            /\ lsPc' = "read"
            /\ inFlight' = inFlight + 1
            /\ UNCHANGED <<alive, taskPanic>>
       \/ /\ ListenerDies("accept")
          /\ UNCHANGED <<conn, sent, lenAtAccept, inFlight>>
    /\ UNCHANGED <<overflowChecks, items, lock, value, entry>>
    /\ UNCHANGED uiVars
    /\ UNCHANGED flatVars

\* incoming.next().await, stream?, task::spawn(connection_loop(...))
Accept ==
    /\ alive /\ lsPc = "accept"
    /\ Len(sent) < MaxConns
    /\ \/ \E b \in SeqsUpTo(Bytes, MaxBytes), e \in Endings :
            /\ HasNul(b) => e = "close"
            /\ conn' = [bytes |-> b, ending |-> e]
            /\ sent' = Append(sent, Carried(conn'))
            /\ lenAtAccept' = Len(items)
            /\ lsPc' = "read"
            /\ inFlight' = inFlight + 1
            /\ UNCHANGED <<alive, taskPanic>>
       \/ /\ ListenerDies("accept")
          /\ UNCHANGED <<conn, sent, lenAtAccept, inFlight>>
    /\ UNCHANGED <<overflowChecks, items, lock, value, entry>>
    /\ UNCHANGED uiVars
    /\ UNCHANGED flatVars

\* let value = read(&stream).await;
Read ==
    /\ alive /\ lsPc = "read"
    /\ read_returns(conn)
    /\ value' = read(conn)
    /\ conn' = NoConn
    /\ lsPc' = "decode"
    /\ UNCHANGED <<alive, overflowChecks, items, lock, taskPanic, entry,
                   lenAtAccept, sent, inFlight>>
    /\ UNCHANGED uiVars
    /\ UNCHANGED flatVars

\* a handler that carries on with the undecoded content after a failed decode
Decode_keeps_going ==
    /\ alive /\ lsPc = "decode"
    /\ entry' = IF from_str(value) # DecodeError THEN from_str(value) ELSE "torn"
    /\ lsPc' = "try_lock"
    /\ UNCHANGED <<alive, taskPanic, value, inFlight>>
    /\ UNCHANGED <<overflowChecks, items, lock, conn, lenAtAccept, sent>>
    /\ UNCHANGED uiVars
    /\ UNCHANGED flatVars

\* let debug_entry: DebugEntry = serde_json::from_str(value.as_str()).unwrap();
Decode ==
    /\ alive /\ lsPc = "decode"
    /\ IF from_str(value) # DecodeError
       THEN /\ entry' = from_str(value)
            /\ lsPc' = "try_lock"
            /\ UNCHANGED <<alive, taskPanic, value, inFlight>>
       ELSE /\ TaskPanics("decode")
            /\ value' = <<>>
            /\ UNCHANGED entry
    /\ UNCHANGED <<overflowChecks, items, lock, conn, lenAtAccept, sent>>
    /\ UNCHANGED uiVars
    /\ UNCHANGED flatVars

\* table.try_lock().unwrap()
TaskTryLock ==
    /\ alive /\ lsPc = "try_lock"
    /\ IF lock = "free"
       THEN /\ lock' = "task"
            /\ lsPc' = "insert"
            /\ UNCHANGED <<alive, taskPanic, inFlight>>
       ELSE /\ TaskPanics("try_lock")
            /\ UNCHANGED lock
    /\ UNCHANGED <<overflowChecks, items, conn, value, entry, lenAtAccept, sent>>
    /\ UNCHANGED uiVars
    /\ UNCHANGED flatVars

\* an insert that pushes the entry at the back in place of index 0
Insert_appends ==
    /\ alive /\ lsPc = "insert"
    /\ items' = Append(items, entry)
    /\ trail' = <<>>
    /\ lock' = "free"
    /\ entry' = NoEntry
    /\ value' = <<>>
    /\ lsPc' = "accept"
    /\ inFlight' = inFlight - 1
    /\ UNCHANGED <<alive, overflowChecks, selected, uiPc, uiPanic, taskPanic,
                   conn, lenAtAccept, sent>>
    /\ UNCHANGED flatVars

\* .items.insert(0, debug_entry); the guard is dropped at the end of the
\* statement, the task returns Ok(()) and handle_tcp loops
Insert ==
    /\ alive /\ lsPc = "insert"
    /\ items' = <<entry>> \o items
    /\ trail' = <<>>
    /\ lock' = "free"
    /\ entry' = NoEntry
    /\ value' = <<>>
    /\ lsPc' = "accept"
    /\ inFlight' = inFlight - 1
    /\ UNCHANGED <<alive, overflowChecks, selected, uiPc, uiPanic, taskPanic,
                   conn, lenAtAccept, sent>>
    /\ UNCHANGED flatVars

Next ==
    \/ DrawTryLock
    \/ DrawBody
    \/ Input
    \/ KeyJ
    \/ KeyK
    \/ Bind
    \/ Accept
    \/ Read
    \/ Decode
    \/ TaskTryLock
    \/ Insert

Spec == Init /\ [][Next]_vars

\* ---------------------------------------------------------- flattening
\* two stored entries decoded from equal content, each into a HashMap of
\* its own
InitFlatten ==
    /\ Started
    /\ overflowChecks = TRUE
    /\ data \in Payloads
    /\ hashOrder \in [1..2 -> IterOrders(data)]
    /\ paragraph = <<<<>>, <<>>>>

\* the entry as the draw closure hands it to build_paragraph_for_item
Item(i) == [time |-> "t", data |-> [content |-> data, iter |-> hashOrder[i]]]

\* let text = build_paragraph_for_item(selected_item);
BuildParagraph(i) ==
    /\ paragraph' = [paragraph EXCEPT ![i] = build_paragraph_for_item(Item(i))]
    /\ UNCHANGED <<data, hashOrder>>
    /\ UNCHANGED <<tableVars, uiVars, taskVars>>

NextFlatten == \E i \in 1..2 : BuildParagraph(i)

SpecFlatten == InitFlatten /\ [][NextFlatten]_vars


\* ------------------------------------------------------------- claims
Last(s) == s[Len(s)]

\* the handler of the last accepted connection has returned or panicked
HandlerFinished == sent # <<>> /\ lsPc \in {"accept", "dead"}

\* the wire protocol's message: a schema-valid document, then a NUL
WellFormed(c) == c.nul /\ c.event # DecodeError

\* C1: in every reachable state the selection is absent or an index i with
\* 0 <= i < len(events).
C1_SelectionInRange ==
    IF selected = None THEN TRUE ELSE InBounds(selected[1], Len(items))

\* C2: acquiring the guard never fails: neither thread ever panics on an
\* attempt to take the lock while the other thread holds it.
C2_AcquireNeverFails == uiPanic # "try_lock" /\ taskPanic # "try_lock"

\* C3: once every connection has completed, and each carried a well-formed
\* Event, events holds exactly those Events, the last one sent first.
C3_ReverseChronological ==
    (/\ lsPc \in {"accept", "dead"}
     /\ \A k \in 1..Len(sent) : WellFormed(sent[k]))
    => items = [k \in 1..Len(sent) |-> sent[Len(sent) + 1 - k].event]

\* C4: a connection whose content is no valid Event makes its handler fail
\* recoverably: the handler's failure ends neither the listener nor the process.
C4_DecodeFailureRecoverable ==
    (sent # <<>> /\ Last(sent).event = DecodeError /\ taskPanic = "decode")
    => (lsPc # "dead" /\ (alive \/ uiPc \in {"done", "panicked"}))

\* C5: a connection closed without ever sending a NUL stores zero Events,
\* whatever it sent before closing.
C5_NoNulStoresNothing ==
    (HandlerFinished /\ ~Last(sent).nul /\ Last(sent).ending = "close")
    => Len(items) = lenAtAccept

\* C6: a connection that sends a schema-valid document followed by a NUL
\* stores exactly one Event, the one the document denotes.
C6_NulTerminatedStored ==
    (HandlerFinished /\ WellFormed(Last(sent)))
    => (Len(items) = lenAtAccept + 1 /\ items[1] = Last(sent).event)

\* C7: the store only ever holds fully decoded Events: items changes only by
\* inserting, at the front, the Event decoded from the whole content read,
\* and a handler step that fails changes neither items nor the selection and
\* leaves as many items as there were when its connection was accepted.
C7_OnlyDecodedEventsStored ==
    [][/\ (items' # items =>
             /\ lsPc = "insert"
             /\ entry \in Docs
             /\ entry = from_str(value)
             /\ items' = <<entry>> \o items
             /\ selected' = selected)
       /\ ((lsPc \in {"read", "decode", "try_lock", "insert"} /\ lsPc' = "dead") =>
             /\ items' = items
             /\ selected' = selected
             /\ Len(items') = lenAtAccept)]_vars

\* C7 witness: a handler failed after an Event was stored, and the store
\* still holds exactly the Event it held at accept.
C7_Witness ==
    /\ taskPanic = "decode"
    /\ lenAtAccept = 1
    /\ Len(items) = 1
    /\ items[1] \in Docs

\* C8: on an empty store select_next and select_previous leave the
\* selection None and do not fail.
C8_EmptyStoreKeepsNone ==
    items = <<>> => (selected = None /\ uiPanic # "overflow")

\* the last n key steps were all select_next
LastAllNext(n) ==
    /\ Len(trail) >= n
    /\ \A k \in (Len(trail) - n + 1)..Len(trail) : trail[k].op = "next"

\* the selection before the last n key steps
BeforeLast(n) == trail[Len(trail) - n + 1].before

\* C9: select_next applied L times to a store of L >= 1 events, with no
\* insert in between, returns the selection to the in-range index it
\* started from.
C9_NextCycles ==
    LET L == Len(items) IN
    (/\ L >= 1
     /\ LastAllNext(L)
     /\ BeforeLast(L) # None
     /\ InBounds(BeforeLast(L)[1], L))
    => selected = BeforeLast(L)

\* C9 witness: two select_next steps on a store of two events came back to
\* the index 1 they started from.
C9_Witness ==
    /\ Len(items) = 2
    /\ LastAllNext(2)
    /\ BeforeLast(2) = Some(1)
    /\ selected = Some(1)

\* the last two key steps were select_next and select_previous, in either order
LastTwoOpposite ==
    /\ Len(trail) >= 2
    /\ trail[Len(trail) - 1].op # trail[Len(trail)].op

\* C10 (as stated): on a non-empty store, from every selection state,
\* select_next then select_previous, and select_previous then select_next,
\* restore the selection that held before.
C10_InverseFromAnySelection ==
    (Len(items) >= 1 /\ LastTwoOpposite) => selected = BeforeLast(2)

\* C10 (amended): on a non-empty store, from every selection that is an
\* index 0 <= i < len(events), select_next then select_previous, and
\* select_previous then select_next, restore that index.
C10_InverseFromIndex ==
    (/\ Len(items) >= 1
     /\ LastTwoOpposite
     /\ BeforeLast(2) # None
     /\ InBounds(BeforeLast(2)[1], Len(items)))
    => selected = BeforeLast(2)

\* C10 witness: from index 1 of two events, select_next wrapped to 0 and
\* select_previous came back to 1.
C10_Witness ==
    /\ Len(items) = 2
    /\ Len(trail) >= 2
    /\ trail[Len(trail) - 1] = [op |-> "next", before |-> Some(1)]
    /\ trail[Len(trail)] = [op |-> "previous", before |-> Some(0)]
    /\ selected = Some(1)

\* C11: a render step on a non-empty store with selection None sets the
\* selection to len(events)-1, and a render step on a store whose selection
\* is already set (or on an empty store) never changes the selection.
C11_DefaultSelectionIdempotent ==
    [][(uiPc = "drawing" /\ uiPc' # "drawing") =>
          IF Len(items) > 0 /\ selected = None
          THEN selected' = Some(Len(items) - 1)
          ELSE selected' = selected]_vars

\* C11 witness: with overflow checks on, index 1 of two events with no key
\* step since the last insert can only come from the render-time default.
C11_Witness ==
    /\ overflowChecks
    /\ Len(items) = 2
    /\ selected = Some(1)
    /\ trail = <<>>
    /\ uiPc = "wait"

\* C12: insert only prepends: every step that changes events adds one Event
\* at the front, leaves the Events stored before it unchanged and in order
\* behind it, and leaves the selection unchanged.
C12_InsertOnlyPrepends ==
    [][items' # items =>
          /\ Len(items') = Len(items) + 1
          /\ Tail(items') = items
          /\ selected' = selected]_vars

\* C12 witness: a second, different Event was inserted in front of the
\* first while the selection stayed at index 0.
C12_Witness ==
    /\ overflowChecks
    /\ lsPc = "accept"
    /\ Len(items) = 2
    /\ items[1] # items[2]
    /\ selected = Some(0)
    /\ trail = <<>>

\* C13: dispatch is sequential: at most one connection handler is in
\* flight, and while the listener is at its accept point (or has ended) no
\* handler is in flight: the previous one has returned or panicked.
C13_SequentialDispatch ==
    /\ inFlight \in {0, 1}
    /\ lsPc \in {"bind", "accept", "dead"} => inFlight = 0

\* C13 witness: a second connection was accepted after the first handler
\* had stored its event and finished.
C13_Witness ==
    /\ Len(sent) = 2
    /\ Len(items) = 1
    /\ lsPc = "read"
    /\ inFlight = 1

\* C14: a bind failure is fatal at startup: once the socket could not be
\* bound, the main thread takes no further step (no render, no key step).
C14_BindFailureFatal ==
    [][taskPanic = "bind" => (uiPc' = uiPc /\ lock' = lock)]_vars

\* build_paragraph_for_item has run for entry i
Built(i) == paragraph[i] # <<>>

\* the flattened text of entry i: its paragraph after the two leading lines
Text(i) == SubSeq(paragraph[i], 3, Len(paragraph[i]))
Lines(i) == {Text(i)[n] : n \in DOMAIN Text(i)}

\* C15: flattening is deterministic: the two entries, whose payloads are
\* identical, flatten to identical line sequences.
C15_FlattenDeterministic ==
    (Built(1) /\ Built(2)) => paragraph[1] = paragraph[2]

\* the last key step was select_previous taken from selection None
LastPreviousFromNone ==
    /\ trail # <<>>
    /\ Last(trail) = [op |-> "previous", before |-> None]

\* C16 (as stated): select_previous on a non-empty store with selection
\* None sets the selection to len(events)-1.
C16_PreviousFromNoneSelectsLast ==
    (Len(items) >= 1 /\ LastPreviousFromNone) => selected = Some(Len(items) - 1)

\* C16 (amended): select_previous on a non-empty store with selection None
\* sets the selection to index 0.
C16_PreviousFromNoneSelectsFirst ==
    (Len(items) >= 1 /\ LastPreviousFromNone) => selected = Some(0)

\* C16 witness: select_previous ran on two events with nothing selected and
\* selected index 0.
C16_Witness ==
    /\ Len(items) = 2
    /\ LastPreviousFromNone
    /\ selected = Some(0)

\* every key path into a map, and the value a path leads to
RECURSIVE PathsOf(_)
PathsOf(m) ==
    UNION {{<<k>>} \cup (IF m[k].t = "Object"
                         THEN {<<k>> \o q : q \in PathsOf(m[k].m)}
                         ELSE {}) : k \in DOMAIN m}

RECURSIVE ValueAt(_, _)
ValueAt(m, p) == IF Len(p) = 1 THEN m[p[1]] ELSE ValueAt(m[p[1]].m, Tail(p))

PathsTo(types) == {p \in PathsOf(data) : ValueAt(data, p).t \in types}

\* the indent of a value whose path has depth Len(p) - 1
Dashes(p) == repeat("-", 2 * (Len(p) - 1))

\* nested Objects whose key is not "array", and the header line of one
HeaderPaths ==
    {p \in PathsTo({"Object"}) : Len(p) > 1 /\ Last(p) # "array"}
HeaderLine(p) == Dashes(p) \o <<" ", Last(p), " ", "(", p[Len(p) - 1], ")">>
IsHeader(line) == Last(line) = ")"

ScalarPaths == PathsTo({"Bool", "Number", "String"})
ScalarLine(p) == Dashes(p) \o <<" ", Last(p), " ", Display(ValueAt(data, p))>>

\* C17: an Object emits the header "{indent} {key} ({parent_label})" exactly
\* when it is nested and its key is not "array"; a top-level Object and an
\* Object keyed "array" emit none; the contents of every Object are
\* flattened one indent level deeper; {"outer":{"inner":5}} gives the single
\* line "-- inner 5".
C17_HeaderRule ==
    \A i \in 1..2 : Built(i) =>
        /\ {l \in Lines(i) : IsHeader(l)} = {HeaderLine(p) : p \in HeaderPaths}
        /\ Len(SelectSeq(Text(i), IsHeader)) = Cardinality(HeaderPaths)
        /\ \A p \in ScalarPaths : ScalarLine(p) \in Lines(i)
        /\ data = [outer |-> Object([inner |-> Number(5)])]
              => Text(i) = <<<<"-", "-", " ", "inner", " ", "5">>>>

\* C17 witness: a payload with a nested Object keyed "array" and a nested
\* Object keyed "inner" was flattened, and the header of the latter is there.
C17_Witness ==
    /\ data = [outer |-> Object([array |-> Object([inner |-> Number(5)]),
                                 inner |-> Object([inner |-> Null])])]
    /\ Built(1)
    /\ HeaderLine(<<"outer", "inner">>) \in Lines(1)

NullPaths == PathsTo({"Null"})
BareLine(p) == Dashes(p) \o <<" ", Last(p)>>
NullLine(p) == IF Len(p) = 1 THEN BareLine(p) ELSE BareLine(p) \o <<" ", "NULL">>
EmittingPaths == NullPaths \cup ScalarPaths \cup HeaderPaths

\* C18 (as stated): a Null at any depth emits exactly "{indent} {key}" with
\* nothing after the key, and an Array emits no line.
C18_NullBareAtAnyDepth ==
    \A i \in 1..2 : Built(i) =>
        /\ \A p \in NullPaths : BareLine(p) \in Lines(i)
        /\ Len(Text(i)) = Cardinality(EmittingPaths)

\* C18 (amended): a top-level Null emits "{indent} {key}" with nothing after
\* the key, a nested Null emits "{indent} {key} NULL", and an Array at any
\* depth emits no line.
C18_NullLineByDepth ==
    \A i \in 1..2 : Built(i) =>
        /\ \A p \in NullPaths : NullLine(p) \in Lines(i)
        /\ Len(SelectSeq(Text(i), LAMBDA l : \E p \in NullPaths : l = NullLine(p)))
              = Cardinality(NullPaths)
        /\ Len(Text(i)) = Cardinality(EmittingPaths)

\* C18 witness: a payload with a top-level Null, a nested Null and a nested
\* Array was flattened to its two Null lines.
C18_Witness ==
    /\ data = [array |-> Null, outer |-> Object([array |-> Array, inner |-> Null])]
    /\ Built(1)
    /\ Lines(1) = {<<" ", "array">>, <<"-", "-", " ", "inner", " ", "NULL">>}

\* C19: a render step never fails to resolve its selected Event: the lookup
\* of the selected Event in the draw closure never panics.
C19_RenderLookupNeverFails == uiPanic # "get"

\* C20: the guard is never held across a blocking wait: the connection task
\* holds it only for the insert, after the read and the decode, and the main
\* thread does not hold it while it waits for input or between two renders.
C20_GuardNotHeldAcrossWait ==
    /\ lsPc # "insert" => lock # "task"
    /\ uiPc \in {"draw", "wait", "done"} => lock # "ui"

\* C20 witness: a client stalls without a NUL while the main thread has
\* taken the guard for a key step.
C20_Witness ==
    /\ lsPc = "read"
    /\ conn.ending = "stall"
    /\ ~read_returns(conn)
    /\ uiPc = "j_locked"
    /\ lock = "ui"

====
